---- MODULE Spec2Model ----
(***************************************************************************)
(* A model of dicom2nifti.py: the directory scan (scan_dicom_folders),     *)
(* the destination resolver (_get_output_subdir, _clean_path_name) and    *)
(* the convert pass (convert_all, _convert_folder and its two            *)
(* strategies).                                                           *)
(*                                                                         *)
(* Text is modelled as a sequence of one-character strings, so that the   *)
(* string operations of the program (replace, split, join, strip, the     *)
(* substring test, the os.path functions) are computed and not assumed.   *)
(* A produced-file list is modelled as a set: glob returns each path once *)
(* in an order the operating system chooses.                              *)
(***************************************************************************)
EXTENDS Integers, Sequences, FiniteSets, TLC

VARIABLES
    pc,             \* position of the control thread
    opts,           \* the constructor's options
    fs,             \* the input tree: directory -> listing of its files
    walk,           \* the directories os.walk yields, in order
    walk_idx,       \* index of the next directory of the walk
    dicom_folders,  \* self.dicom_folders: ordered mapping path -> DicomFolder
    conv_idx,       \* index of the next unit of the convert loop
    results,        \* convert_all's results: ordered mapping key -> files
    disk,           \* the files under the output directory
    attempts,       \* history: the units handed to _convert_folder
    last_run,       \* history: the last external converter invocation
    handled,        \* history: (unit, source file) pairs given to reconstruction
    summary,        \* the figures _print_summary computes
    resolved        \* history: what _get_output_subdir computed per unit

vars == <<pc, opts, fs, walk, walk_idx, dicom_folders, conv_idx, results,
          disk, attempts, last_run, handled, summary, resolved>>

-----------------------------------------------------------------------------
(* Bounds of the model. *)

\* Longest directory name drawn for the resolver's inputs.
MaxNameLen == 3
\* Longest directory name drawn when two units are resolved together.
PairNameLen == 2
\* Most files in the input tree during a scan.
MaxFiles == 3
\* Number of distinct base names one external converter run can write.
NumOutNames == 1

-----------------------------------------------------------------------------
(* Text. *)

Sep == "/"
Whitespace == {" ", "\t"}
InvalidChars == {"<", ">", ":", "\"", "|", "?", "*"}

\* sep.join(parts)
RECURSIVE JoinWith(_, _)
JoinWith(parts, sep) ==
    IF parts = <<>> THEN <<>>
    ELSE IF Len(parts) = 1 THEN parts[1]
    ELSE parts[1] \o sep \o JoinWith(Tail(parts), sep)

\* s.split(c): the fields between occurrences of c, empty fields kept
RECURSIVE SplitOn(_, _)
SplitOn(s, c) ==
    IF \A i \in 1..Len(s) : s[i] # c THEN <<s>>
    ELSE LET k == CHOOSE i \in 1..Len(s) :
                      s[i] = c /\ \A j \in 1..(i - 1) : s[j] # c
         IN  <<SubSeq(s, 1, k - 1)>> \o SplitOn(SubSeq(s, k + 1, Len(s)), c)

RECURSIVE LStrip(_)
LStrip(s) ==
    IF s # <<>> /\ s[1] \in Whitespace THEN LStrip(Tail(s)) ELSE s

RECURSIVE RStrip(_)
RStrip(s) ==
    IF s # <<>> /\ s[Len(s)] \in Whitespace
    THEN RStrip(SubSeq(s, 1, Len(s) - 1)) ELSE s

\* s.strip()
Strip(s) == RStrip(LStrip(s))

\* s.split(): the maximal runs of non-whitespace characters
RECURSIVE SplitWs(_)
SplitWs(s) ==
    LET t == LStrip(s) IN
    IF t = <<>> THEN <<>>
    ELSE LET ws == {i \in 1..Len(t) : t[i] \in Whitespace}
             k  == IF ws = {} THEN Len(t) + 1
                   ELSE CHOOSE i \in ws : \A j \in ws : i <= j
         IN  <<SubSeq(t, 1, k - 1)>> \o SplitWs(SubSeq(t, k, Len(t)))

\* needle in hay
IsSubstr(needle, hay) ==
    \E i \in 0..(Len(hay) - Len(needle)) :
        SubSeq(hay, i + 1, i + Len(needle)) = needle

\* name.replace(char, '_') for every char of invalid_chars
ReplaceInvalid(name) ==
    [i \in 1..Len(name) |-> IF name[i] \in InvalidChars THEN "_" ELSE name[i]]

\* A sanitiser that forgets to collapse whitespace.
CleanNoCollapse(name) == Strip(ReplaceInvalid(name))

_clean_path_name(name) ==
    Strip(JoinWith(SplitWs(ReplaceInvalid(name)), <<" ">>))

-----------------------------------------------------------------------------
(* os.path and pathlib, POSIX flavour. *)

NonEmpty(parts) == SelectSeq(parts, LAMBDA p : p # <<>>)

\* os.path.join(a, b)
PathJoin2(a, b) ==
    IF b # <<>> /\ b[1] = Sep THEN b
    ELSE IF a = <<>> \/ a[Len(a)] = Sep THEN a \o b
    ELSE a \o <<Sep>> \o b

\* len(commonprefix([start_list, path_list]))
CommonPrefixLen(start_list, path_list) ==
    LET m == IF Len(start_list) < Len(path_list)
             THEN Len(start_list) ELSE Len(path_list)
        diff == {k \in 1..m : start_list[k] # path_list[k]}
    IN  IF diff = {} THEN m
        ELSE (CHOOSE k \in diff : \A j \in diff : k <= j) - 1

\* [pardir] * (len(start_list) - i) + path_list[i:]
RelList(start_list, path_list, i) ==
    [k \in 1..(Len(start_list) - i) |-> <<".", ".">>]
    \o SubSeq(path_list, i + 1, Len(path_list))

\* curdir for an empty list, else join(*rel_list)
RelJoin(rel_list) ==
    IF rel_list = <<>> THEN <<".">> ELSE JoinWith(rel_list, <<Sep>>)

RelFrom(start_list, path_list) ==
    RelJoin(RelList(start_list, path_list,
                    CommonPrefixLen(start_list, path_list)))

\* os.path.relpath(path, start) for absolute, normalised arguments
RelPath(path, start) ==
    RelFrom(NonEmpty(SplitOn(start, Sep)), NonEmpty(SplitOn(path, Sep)))

\* index just after the last separator of p (p.rfind('/') + 1)
AfterLastSep(p) ==
    LET seps == {k \in 1..Len(p) : p[k] = Sep}
    IN  IF seps = {} THEN 0 ELSE CHOOSE k \in seps : \A j \in seps : j <= k

RECURSIVE RStripSep(_)
RStripSep(s) ==
    IF s # <<>> /\ s[Len(s)] = Sep
    THEN RStripSep(SubSeq(s, 1, Len(s) - 1)) ELSE s

\* head.rstrip('/') unless head is empty or all separators
TrimHead(head) ==
    IF head # <<>> /\ \E k \in 1..Len(head) : head[k] # Sep
    THEN RStripSep(head) ELSE head

\* os.path.dirname(p)
DirName(p) == TrimHead(SubSeq(p, 1, AfterLastSep(p)))

\* os.path.basename(p)
BaseName(p) == SubSeq(p, AfterLastSep(p) + 1, Len(p))

\* str(Path(base) / rel): an absolute rel replaces base; empty and "." segments
\* are dropped, ".." is kept
PathParts(p) ==
    SelectSeq(SplitOn(p, Sep), LAMBDA x : x # <<>> /\ x # <<".">>)

PathDiv(base, rel) ==
    <<Sep>> \o JoinWith(IF rel # <<>> /\ rel[1] = Sep THEN PathParts(rel)
                        ELSE PathParts(base) \o PathParts(rel), <<Sep>>)

-----------------------------------------------------------------------------
(* The constructor's directories. *)

InputDir  == <<"/", "i">>
OutputDir == <<"/", "o">>

-----------------------------------------------------------------------------
(* Insertion-ordered mappings (Python dict): a sequence of key/value pairs *)
(* with no key twice.                                                      *)

Keys(d) == [i \in 1..Len(d) |-> d[i].key]
DictHas(d, k) == \E i \in 1..Len(d) : d[i].key = k
DictGet(d, k) == d[CHOOSE i \in 1..Len(d) : d[i].key = k].val

\* d[k] = v: a present key keeps its place and takes the new value
DictSet(d, k, v) ==
    IF DictHas(d, k)
    THEN [i \in 1..Len(d) |-> IF d[i].key = k THEN [key |-> k, val |-> v]
                              ELSE d[i]]
    ELSE Append(d, [key |-> k, val |-> v])

-----------------------------------------------------------------------------
(* The input tree.  A file is what the program can observe of it: whether  *)
(* bytes 128..131 are DICM, whether pydicom.dcmread(force=True) returns    *)
(* or raises, and the attributes of the data set it returns.               *)

DirA == <<"a">>
DirB == <<"b">>

\* A directory is the sequence of names leading to it from the input root.
Dirs == {<<>>, <<DirA>>, <<DirA, DirB>>}

\* The sub-directories os.walk finds in a directory, in listing order.
SubDirs(d) ==
    IF d = <<>> THEN <<DirA>>
    ELSE IF d = <<DirA>> THEN <<DirB>>
    ELSE <<>>

NoVal == [SeriesInstanceUID |-> <<>>, PatientID |-> <<>>, StudyDate |-> <<>>,
          SeriesDescription |-> <<>>, SeriesNumber |-> 0]

\* preamble and signature, parseable, with series, patient and date
KindM == [magic |-> TRUE, readable |-> TRUE,
          has |-> {"SeriesInstanceUID", "PatientID", "StudyDate",
                   "SeriesDescription", "SeriesNumber"},
          val |-> [SeriesInstanceUID |-> <<"1">>, PatientID |-> <<"p">>,
                   StudyDate |-> <<"2">>, SeriesDescription |-> <<"T">>,
                   SeriesNumber |-> 1]]
\* signature present, content corrupt: dcmread raises
KindX == [magic |-> TRUE, readable |-> FALSE, has |-> {}, val |-> NoVal]
\* no preamble, parseable, a series identifier and nothing else
KindU == [magic |-> FALSE, readable |-> TRUE, has |-> {"SeriesInstanceUID"},
          val |-> [NoVal EXCEPT !.SeriesInstanceUID = <<"2">>]]
\* signature present, parseable, no series identifier, padded patient id
KindH == [magic |-> TRUE, readable |-> TRUE, has |-> {"PatientID"},
          val |-> [NoVal EXCEPT !.PatientID = <<" ", "q">>]]
\* not an imaging file
KindN == [magic |-> FALSE, readable |-> TRUE, has |-> {}, val |-> NoVal]

FileKinds == {KindM, KindX, KindU, KindH, KindN}

HasAttr(dcm, a) == a \in dcm.has
GetAttr(dcm, a, default) == IF a \in dcm.has THEN dcm.val[a] ELSE default

RECURSIVE SumLen(_, _)
SumLen(f, S) ==
    IF S = {} THEN 0
    ELSE LET d == CHOOSE x \in S : TRUE IN Len(f[d]) + SumLen(f, S \ {d})

TotalFiles(fsys) == SumLen(fsys, Dirs)

\* os.path.join(top, name) down to the directory: the root os.walk yields
RECURSIVE RootOf(_)
RootOf(d) ==
    IF d = <<>> THEN InputDir
    ELSE PathJoin2(RootOf(SubSeq(d, 1, Len(d) - 1)), d[Len(d)])

DirOfPath(path) == CHOOSE d \in Dirs : RootOf(d) = path

\* os.walk(top), top-down: a directory, then each sub-directory's walk
RECURSIVE OsWalk(_)
RECURSIVE WalkEach(_, _)
OsWalk(d) == <<d>> \o WalkEach(d, SubDirs(d))
WalkEach(d, kids) ==
    IF kids = <<>> THEN <<>>
    ELSE OsWalk(Append(d, kids[1])) \o WalkEach(d, Tail(kids))

-----------------------------------------------------------------------------
(* The scan. *)

_is_dicom_file(f) ==
    IF f.magic THEN TRUE
    ELSE IF ~f.readable THEN FALSE
    ELSE HasAttr(f, "SeriesInstanceUID")

\* A scan that takes every file of the directory for an imaging file.
AllFilesOf(listing) == listing

\* the files of one directory that are imaging files, in listing order
DicomFilesOf(listing) == SelectSeq(listing, _is_dicom_file)

Unknown == <<"U", "n", "k", "n", "o", "w", "n">>

NoInfo == [folder_path |-> <<>>, folder_name |-> <<>>, patient_id |-> <<>>,
           study_date |-> <<>>, file_count |-> 0]

\* the DicomFolder built from the first file's data set dcm
FolderInfo(folder_path, dicom_files) ==
    [folder_path |-> folder_path,
     folder_name |-> BaseName(folder_path),
     patient_id  |-> Strip(GetAttr(dicom_files[1], "PatientID", Unknown)),
     study_date  |-> Strip(GetAttr(dicom_files[1], "StudyDate", <<>>)),
     file_count  |-> Len(dicom_files)]

\* An analysis that lets the parse error of the first file escape.
AnalyzeRaising(folder_path, dicom_files) ==
    IF ~dicom_files[1].readable
    THEN [status |-> "raise", info |-> NoInfo]
    ELSE [status |-> "ok", info |-> FolderInfo(folder_path, dicom_files)]

\* status "none" is the None the except clause returns
_analyze_dicom_folder(folder_path, dicom_files) ==
    IF ~dicom_files[1].readable
    THEN [status |-> "none", info |-> NoInfo]
    ELSE [status |-> "ok", info |-> FolderInfo(folder_path, dicom_files)]

\* if folder_info: self.dicom_folders[root] = folder_info; an exception of
\* the analysis leaves the loop
RecordFolder(mapping, root, r) ==
    IF r.status = "raise" THEN [status |-> "raise", map |-> mapping]
    ELSE IF r.status = "none" THEN [status |-> "ok", map |-> mapping]
    ELSE [status |-> "ok", map |-> DictSet(mapping, root, r.info)]

\* if dicom_files: analyse and record
ScanFiles(mapping, root, dicom_files) ==
    IF dicom_files = <<>> THEN [status |-> "ok", map |-> mapping]
    ELSE RecordFolder(mapping, root, _analyze_dicom_folder(root, dicom_files))

\* one iteration of the loop over os.walk
ScanStep(mapping, d, fsys) ==
    ScanFiles(mapping, RootOf(d), DicomFilesOf(fsys[d]))

\* the whole loop, from an empty mapping
RECURSIVE ScanFrom(_, _, _)
ScanFrom(mapping, w, fsys) ==
    IF w = <<>> THEN mapping
    ELSE ScanFrom(ScanStep(mapping, w[1], fsys).map, Tail(w), fsys)

ScanAll(fsys) == ScanFrom(<<>>, OsWalk(<<>>), fsys)

-----------------------------------------------------------------------------
(* The destination resolver. *)

\* rel_path after the relpath and the sanitising of the whole of it
CleanRelPath(folder_info) ==
    _clean_path_name(RelPath(folder_info.folder_path, InputDir))

\* the new leaf name: patient id, date when there is one, old leaf name
NewFolderName(folder_info, folder_name) ==
    JoinWith(<<_clean_path_name(folder_info.patient_id)>>
             \o (IF folder_info.study_date # <<>>
                 THEN <<folder_info.study_date>> ELSE <<>>)
             \o <<folder_name>>, <<"_">>)

\* os.path.join(parent, new_folder_name) if parent else new_folder_name
JoinParent(parent, new_folder_name) ==
    IF parent # <<>> THEN PathJoin2(parent, new_folder_name)
    ELSE new_folder_name

\* rel_path with the patient information put before its leaf, when asked
\* for and when the patient id is not found in rel_path
NamedRelPath(folder_info, o, rel_path) ==
    IF /\ o.include_patient_info
       /\ folder_info.patient_id # <<>>
       /\ ~IsSubstr(folder_info.patient_id, rel_path)
    THEN JoinParent(DirName(rel_path),
                    NewFolderName(folder_info, BaseName(rel_path)))
    ELSE rel_path

_get_output_subdir(folder_info, o) ==
    IF o.organize_by_folder
    THEN PathDiv(OutputDir,
                 NamedRelPath(folder_info, o, CleanRelPath(folder_info)))
    ELSE OutputDir

DefaultOpts == [use_dcm2niix |-> TRUE, organize_by_folder |-> TRUE,
                include_patient_info |-> TRUE, compress |-> TRUE,
                sitk |-> TRUE]

NoRun == [ran |-> FALSE, returncode |-> 0, status |-> "ok",
          output_folder |-> <<>>, written |-> {}, returned |-> {}]
NoSummary == [total_folders |-> 0, success_folders |-> 0, total_files |-> 0]

\* the variables a pass does not use
ConvertIdle ==
    /\ conv_idx = 0 /\ results = <<>> /\ disk = {} /\ attempts = <<>>
    /\ last_run = NoRun /\ handled = {} /\ summary = NoSummary
    /\ resolved = <<>>

Init ==
    /\ pc = "setup"
    /\ opts = DefaultOpts
    /\ fs = [d \in Dirs |-> <<>>]
    /\ walk = <<>>
    /\ walk_idx = 0
    /\ dicom_folders = <<>>
    /\ ConvertIdle

\* the tree is filled before the program runs
CreateFile(d, k) ==
    /\ pc = "setup"
    /\ TotalFiles(fs) < MaxFiles
    /\ fs' = [fs EXCEPT ![d] = Append(@, k)]
    /\ UNCHANGED <<pc, opts, walk, walk_idx, dicom_folders, conv_idx, results,
                   disk, attempts, last_run, handled, summary, resolved>>

ScanStart ==
    /\ pc = "setup"
    /\ dicom_folders' = <<>>
    /\ walk' = OsWalk(<<>>)
    /\ walk_idx' = 1
    /\ pc' = "scan"
    /\ UNCHANGED <<opts, fs, conv_idx, results, disk, attempts, last_run,
                   handled, summary, resolved>>

ScanOutcome(r) ==
    /\ dicom_folders' = r.map
    /\ pc' = IF r.status = "raise" THEN "raised" ELSE "scan"

ScanDir ==
    /\ pc = "scan"
    /\ walk_idx <= Len(walk)
    /\ ScanOutcome(ScanStep(dicom_folders, walk[walk_idx], fs))
    /\ walk_idx' = walk_idx + 1
    /\ UNCHANGED <<opts, fs, walk, conv_idx, results, disk, attempts,
                   last_run, handled, summary, resolved>>

ScanReturn ==
    /\ pc = "scan"
    /\ walk_idx > Len(walk)
    /\ pc' = "scanned"
    /\ UNCHANGED <<opts, fs, walk, walk_idx, dicom_folders, conv_idx, results,
                   disk, attempts, last_run, handled, summary, resolved>>

Next ==
    \/ \E d \in Dirs, k \in FileKinds : CreateFile(d, k)
    \/ ScanStart
    \/ ScanDir
    \/ ScanReturn

Spec == Init /\ [][Next]_vars

-----------------------------------------------------------------------------
(* The resolver on its own: the units are drawn, _get_output_subdir is     *)
(* applied to each in mapping order.                                       *)

NameChars == {"a", ":", " ", "\t"}
Names == UNION {[1..n -> NameChars] : n \in 1..MaxNameLen}
LeafNames == [1..1 -> NameChars]
PatientIds == {<<>>, <<"a">>, <<":">>}
StudyDates == {<<>>, <<"2">>}

ResolveDirs ==
    {<<>>} \cup {<<n>> : n \in Names}
           \cup {<<n, m>> : n \in Names, m \in LeafNames}
PairDirs == {<<>>} \cup {<<n>> : n \in {x \in Names : Len(x) <= PairNameLen}}

\* the unit a scan records for directory d with these first-file attributes
UnitOf(d, pid, date) ==
    [folder_path |-> RootOf(d), folder_name |-> BaseName(RootOf(d)),
     patient_id |-> pid, study_date |-> date, file_count |-> 1]

UnitsOver(dirs) ==
    {UnitOf(d, pid, date) : d \in dirs, pid \in PatientIds, date \in StudyDates}

NamingOpts ==
    {[DefaultOpts EXCEPT !.organize_by_folder = o, !.include_patient_info = i] :
        o \in BOOLEAN, i \in BOOLEAN}

ResolveIdle ==
    /\ fs = [d \in Dirs |-> <<>>] /\ walk = <<>> /\ walk_idx = 0
    /\ conv_idx = 1 /\ results = <<>> /\ disk = {} /\ attempts = <<>>
    /\ last_run = NoRun /\ handled = {} /\ summary = NoSummary
    /\ resolved = <<>>

InitResolve ==
    /\ pc = "resolve"
    /\ opts \in NamingOpts
    /\ \E u \in UnitsOver(ResolveDirs) :
           dicom_folders = <<[key |-> u.folder_path, val |-> u]>>
    /\ ResolveIdle

InitPair ==
    /\ pc = "resolve"
    /\ opts \in NamingOpts
    /\ \E u \in UnitsOver(PairDirs), v \in UnitsOver(PairDirs) :
           /\ u.folder_path # v.folder_path
           /\ dicom_folders = <<[key |-> u.folder_path, val |-> u],
                                [key |-> v.folder_path, val |-> v]>>
    /\ ResolveIdle

ResolveUnit ==
    /\ pc = "resolve"
    /\ conv_idx <= Len(dicom_folders)
    /\ resolved' = Append(resolved,
           [rel_path |-> IF opts.organize_by_folder
                         THEN CleanRelPath(dicom_folders[conv_idx].val)
                         ELSE <<>>,
            output_subdir |-> _get_output_subdir(dicom_folders[conv_idx].val,
                                                 opts)])
    /\ conv_idx' = conv_idx + 1
    /\ UNCHANGED <<pc, opts, fs, walk, walk_idx, dicom_folders, results, disk,
                   attempts, last_run, handled, summary>>

NextResolve == ResolveUnit

SpecResolve == InitResolve /\ [][NextResolve]_vars
SpecPair == InitPair /\ [][NextResolve]_vars

-----------------------------------------------------------------------------
(* The convert pass.  A file under the output directory is its directory,  *)
(* its name without the extension, and its extension.                      *)

ExpectedExt(o) == IF o.compress THEN ".nii.gz" ELSE ".nii"

Digit(k) == <<"0", "1", "2", "3", "4", "5", "6", "7", "8", "9">>[k + 1]

\* str(n), n >= 0
RECURSIVE DecStr(_)
DecStr(n) ==
    IF n < 10 THEN <<Digit(n)>> ELSE DecStr(n \div 10) \o <<Digit(n % 10)>>

\* f"{n:03d}"
Fmt03(n) == LET d == DecStr(n) IN [i \in 1..(3 - Len(d)) |-> "0"] \o d

\* the names a run of the external converter may give its outputs
OutNames == {<<"n">> \o DecStr(k) : k \in 1..NumOutNames}

\* what a run leaves for the names W: an image (-z) and a sidecar (-b y) each
Dcm2niixWrites(output_folder, W, o) ==
    {[dir |-> output_folder, name |-> n, ext |-> e] :
        n \in W, e \in {ExpectedExt(o), ".json"}}

\* output_path.glob('*' + ext)
Glob(dsk, folder, ext) == {f \in dsk : f.dir = folder /\ f.ext = ext}

\* A converter wrapper that treats a non-zero exit status as an error.
Dcm2niixStrict(returncode, disk_after, output_folder, o) ==
    IF returncode # 0 THEN [status |-> "raise", files |-> {}]
    ELSE [status |-> "ok",
          files |-> Glob(disk_after, output_folder, ExpectedExt(o))]

\* after subprocess.run returned: the warning, then the listing
_convert_with_dcm2niix(returncode, disk_after, output_folder, o) ==
    [status |-> "ok", files |-> Glob(disk_after, output_folder, ExpectedExt(o))]

\* the files os.walk(input_folder) reaches, directory by directory
RECURSIVE FilesUnder(_, _)
FilesUnder(w, fsys) ==
    IF w = <<>> THEN <<>>
    ELSE [i \in 1..Len(fsys[w[1]]) |-> [dir |-> w[1], idx |-> i]]
         \o FilesUnder(Tail(w), fsys)

\* series_files[series_uid].append(ref)
AddToSeries(acc, uid, ref) ==
    DictSet(acc, uid,
            Append(IF DictHas(acc, uid) THEN DictGet(acc, uid) ELSE <<>>, ref))

\* series_files: series identifier -> the files that carry it
RECURSIVE GroupBySeries(_, _, _)
GroupBySeries(refs, fsys, acc) ==
    IF refs = <<>> THEN acc
    ELSE LET f == fsys[refs[1].dir][refs[1].idx] IN
         GroupBySeries(Tail(refs), fsys,
                       IF f.readable /\ HasAttr(f, "SeriesInstanceUID")
                       THEN AddToSeries(acc, f.val.SeriesInstanceUID, refs[1])
                       ELSE acc)

SeriesOutputName(dcm, series_uid) ==
    LET series_desc == Strip(GetAttr(dcm, "SeriesDescription", <<>>))
        series_num  == GetAttr(dcm, "SeriesNumber", 0)
        short       == SubSeq(series_uid, 1,
                              IF Len(series_uid) < 8 THEN Len(series_uid) ELSE 8)
    IN  JoinWith((IF series_num # 0 THEN <<<<"S">> \o Fmt03(series_num)>>
                  ELSE <<>>)
                 \o (IF series_desc # <<>>
                     THEN <<_clean_path_name(series_desc)>> ELSE <<short>>),
                 <<"_">>)

\* the first of name, name_1, name_2, ... that is not on disk
RECURSIVE FreePath(_, _, _, _, _)
FreePath(dsk, folder, name, counter, ext) ==
    LET cand == [dir |-> folder,
                 name |-> IF counter = 0 THEN name
                          ELSE name \o <<"_">> \o DecStr(counter),
                 ext |-> ext]
    IN  IF cand \in dsk THEN FreePath(dsk, folder, name, counter + 1, ext)
        ELSE cand

\* one series: its files go to the reader; unless the reconstruction
\* raises, the image is written to out
SeriesDone(acc, files_info, out, failed) ==
    [disk   |-> IF failed THEN acc.disk ELSE acc.disk \cup {out},
     files  |-> IF failed THEN acc.files ELSE acc.files \cup {out},
     handed |-> acc.handed \cup {files_info[i] : i \in 1..Len(files_info)}]

SeriesStep(acc, series_uid, files_info, dcm, fails, output_folder, o) ==
    SeriesDone(acc, files_info,
               FreePath(acc.disk, output_folder,
                        SeriesOutputName(dcm, series_uid), 0, ExpectedExt(o)),
               series_uid \in fails)

\* the loop over the series; the reconstruction of a series in fails raises
RECURSIVE PySeries(_, _, _, _, _, _)
PySeries(series, acc, fails, output_folder, o, fsys) ==
    IF series = <<>> THEN acc
    ELSE PySeries(Tail(series),
                  SeriesStep(acc, series[1].key, series[1].val,
                             fsys[series[1].val[1].dir][series[1].val[1].idx],
                             fails, output_folder, o),
                  fails, output_folder, o, fsys)

_convert_with_python(input_folder, output_folder, o, fsys, dsk, fails) ==
    IF ~o.sitk THEN [disk |-> dsk, files |-> {}, handed |-> {}]
    ELSE PySeries(GroupBySeries(FilesUnder(OsWalk(DirOfPath(input_folder)), fsys),
                                fsys, <<>>),
                  [disk |-> dsk, files |-> {}, handed |-> {}],
                  fails, output_folder, o, fsys)

\* An error handler that records nothing for the unit.
DropConvertError(res, folder_path) == res

\* the except clause of the convert loop
OnConvertError(res, folder_path) == DictSet(res, folder_path, {})

RECURSIVE TotalProduced(_)
TotalProduced(res) ==
    IF res = <<>> THEN 0 ELSE Cardinality(res[1].val) + TotalProduced(Tail(res))

Summarize(res) ==
    [total_folders   |-> Len(res),
     success_folders |-> Cardinality({i \in 1..Len(res) : res[i].val # {}}),
     total_files     |-> TotalProduced(res)]

ConvListings == {<<>>, <<KindM>>, <<KindH, KindU>>}
ConvTrees == [Dirs -> ConvListings]
ConvOpts ==
    {o \in [use_dcm2niix : BOOLEAN, organize_by_folder : BOOLEAN,
            include_patient_info : BOOLEAN, compress : BOOLEAN,
            sitk : BOOLEAN] : o.use_dcm2niix => o.sitk}
SeriesUids ==
    {k.val.SeriesInstanceUID : k \in {x \in FileKinds : HasAttr(x, "SeriesInstanceUID")}}

\* convert_all is entered after a scan, or with no scan made yet
InitConvert ==
    /\ pc = "convert_all"
    /\ opts \in ConvOpts
    /\ fs \in ConvTrees
    /\ walk = <<>>
    /\ walk_idx = 0
    /\ dicom_folders \in {<<>>, ScanAll(fs)}
    /\ ConvertIdle

\* convert_all up to its loop, with found the mapping after the scan that
\* an empty mapping calls for
EnterLoop(found) ==
    /\ dicom_folders' = found
    /\ pc' = IF found = <<>> THEN "returned" ELSE "loop"

ConvertAllStart ==
    /\ pc = "convert_all"
    /\ EnterLoop(IF dicom_folders = <<>> THEN ScanAll(fs) ELSE dicom_folders)
    /\ results' = <<>>
    /\ conv_idx' = 1
    /\ UNCHANGED <<opts, fs, walk, walk_idx, disk, attempts, last_run, handled,
                   summary, resolved>>

\* the loop body once the converter has run and r is what
\* _convert_with_dcm2niix gave
Dcm2niixDone(folder_path, output_subdir, written, returncode, r) ==
    /\ results' = IF r.status = "raise"
                  THEN OnConvertError(results, folder_path)
                  ELSE DictSet(results, output_subdir, r.files)
    /\ attempts' = Append(attempts,
                          [folder_path |-> folder_path,
                           raised |-> r.status = "raise"])
    /\ last_run' = [ran |-> TRUE, returncode |-> returncode,
                    status |-> r.status, output_folder |-> output_subdir,
                    written |-> written, returned |-> r.files]

\* the converter process writes, then the destination is listed
Dcm2niixRun(folder_path, output_subdir, written, returncode) ==
    /\ disk' = disk \cup written
    /\ Dcm2niixDone(folder_path, output_subdir, written, returncode,
                    _convert_with_dcm2niix(returncode, disk \cup written,
                                           output_subdir, opts))

Dcm2niixInto(folder_path, output_subdir, returncode, W) ==
    Dcm2niixRun(folder_path, output_subdir,
                Dcm2niixWrites(output_subdir, W, opts), returncode)

\* _convert_folder with the external converter: exit status and outputs are
\* the converter's choice
ConvertFolderDcm2niix(returncode, W) ==
    /\ pc = "loop"
    /\ conv_idx <= Len(dicom_folders)
    /\ opts.use_dcm2niix
    /\ Dcm2niixInto(dicom_folders[conv_idx].key,
                    _get_output_subdir(dicom_folders[conv_idx].val, opts),
                    returncode, W)
    /\ conv_idx' = conv_idx + 1
    /\ UNCHANGED <<pc, opts, fs, walk, walk_idx, dicom_folders, handled, summary,
                   resolved>>

PythonDone(folder_path, output_subdir, r) ==
    /\ disk' = r.disk
    /\ results' = DictSet(results, output_subdir, r.files)
    /\ handled' = handled \cup
                  {[unit |-> folder_path, file |-> f] : f \in r.handed}
    /\ attempts' = Append(attempts,
                          [folder_path |-> folder_path, raised |-> FALSE])

PythonInto(folder_path, output_subdir, fails) ==
    PythonDone(folder_path, output_subdir,
               _convert_with_python(folder_path, output_subdir, opts, fs, disk,
                                    fails))

\* _convert_folder with the library strategy
ConvertFolderPython(fails) ==
    /\ pc = "loop"
    /\ conv_idx <= Len(dicom_folders)
    /\ ~opts.use_dcm2niix
    /\ PythonInto(dicom_folders[conv_idx].val.folder_path,
                  _get_output_subdir(dicom_folders[conv_idx].val, opts), fails)
    /\ conv_idx' = conv_idx + 1
    /\ UNCHANGED <<pc, opts, fs, walk, walk_idx, dicom_folders, last_run, summary,
                   resolved>>

\* _convert_folder raises (the destination cannot be created, the converter
\* cannot be started)
ConvertFolderRaise ==
    /\ pc = "loop"
    /\ conv_idx <= Len(dicom_folders)
    /\ results' = OnConvertError(results, dicom_folders[conv_idx].key)
    /\ attempts' = Append(attempts,
                          [folder_path |-> dicom_folders[conv_idx].key,
                           raised |-> TRUE])
    /\ conv_idx' = conv_idx + 1
    /\ UNCHANGED <<pc, opts, fs, walk, walk_idx, dicom_folders, disk, last_run,
                   handled, summary, resolved>>

PrintSummary ==
    /\ pc = "loop"
    /\ conv_idx > Len(dicom_folders)
    /\ summary' = Summarize(results)
    /\ pc' = "done"
    /\ UNCHANGED <<opts, fs, walk, walk_idx, dicom_folders, conv_idx, results,
                   disk, attempts, last_run, handled, resolved>>

NextConvert ==
    \/ ConvertAllStart
    \/ \E returncode \in {0, 1}, W \in SUBSET OutNames :
           ConvertFolderDcm2niix(returncode, W)
    \/ \E fails \in SUBSET SeriesUids : ConvertFolderPython(fails)
    \/ ConvertFolderRaise
    \/ PrintSummary

SpecConvert == InitConvert /\ [][NextConvert]_vars

-----------------------------------------------------------------------------
(* Properties of the scan (specification Spec). *)

\* the positions of the imaging files in the listing of d
ImagingIdx(d) == {i \in 1..Len(fs[d]) : _is_dicom_file(fs[d][i])}
ImagingCount(d) == Cardinality(ImagingIdx(d))
FirstImaging(d) ==
    fs[d][CHOOSE i \in ImagingIdx(d) : \A j \in ImagingIdx(d) : i <= j]
\* metadata extraction fails: the first imaging file cannot be parsed
ExtractionFails(d) == ImagingIdx(d) # {} /\ ~FirstImaging(d).readable
EntriesFor(path) ==
    {i \in 1..Len(dicom_folders) : dicom_folders[i].key = path}
UnitRecorded(d) ==
    /\ Cardinality(EntriesFor(RootOf(d))) = 1
    /\ DictGet(dicom_folders, RootOf(d)).file_count = ImagingCount(d)

\* C1 as stated: after the scan, every directory with at least one direct
\* imaging file has exactly one unit under its path, whose file_count is the
\* number of its direct imaging files.
C1Claim ==
    pc = "scanned" =>
        \A d \in Dirs : ImagingIdx(d) # {} => UnitRecorded(d)

\* C1 amended: the same for every directory with at least one direct imaging
\* file whose first imaging file can be parsed.
C1Amended ==
    pc = "scanned" =>
        \A d \in Dirs :
            (ImagingIdx(d) # {} /\ ~ExtractionFails(d)) => UnitRecorded(d)

\* a scanned directory with two imaging files, recorded, above a directory
\* that has imaging files of its own
C1Witness ==
    /\ pc = "scanned"
    /\ \E d \in Dirs, e \in Dirs :
           /\ Len(e) = Len(d) + 1 /\ SubSeq(e, 1, Len(d)) = d
           /\ ImagingCount(d) = 2 /\ ImagingCount(e) >= 1
           /\ UnitRecorded(d)

\* C5: the scan never ends in an exception; after it, a directory whose
\* metadata extraction failed has no unit, and every directory with imaging
\* files and a parseable first file has one.
C5Theorem ==
    /\ pc # "raised"
    /\ pc = "scanned" =>
           \A d \in Dirs :
               /\ ExtractionFails(d) => EntriesFor(RootOf(d)) = {}
               /\ (ImagingIdx(d) # {} /\ ~ExtractionFails(d))
                      => EntriesFor(RootOf(d)) # {}

\* extraction failed in the middle directory of the walk; the directory
\* walked before it and the one walked after it are in the mapping
C5Witness ==
    /\ pc = "scanned"
    /\ ExtractionFails(<<DirA>>)
    /\ EntriesFor(RootOf(<<>>)) # {}
    /\ EntriesFor(RootOf(<<DirA, DirB>>)) # {}

-----------------------------------------------------------------------------
(* Properties of the resolver (specifications SpecResolve, SpecPair). *)

RawRelPath(i) == RelPath(dicom_folders[i].val.folder_path, InputDir)

\* C2 as stated: with organize_by_folder and include_patient_info, a unit
\* whose patient id occurs in its path relative to the input root gets the
\* sanitised relative path as destination, with no patient prefix added.
C2Claim ==
    \A i \in 1..Len(resolved) :
        ( /\ opts.organize_by_folder
          /\ opts.include_patient_info
          /\ IsSubstr(dicom_folders[i].val.patient_id, RawRelPath(i)) )
        => resolved[i].output_subdir = PathDiv(OutputDir, resolved[i].rel_path)

\* C3 as stated: with organize_by_folder, two units with different
\* folder_path get different destination directories.
C3Claim ==
    (opts.organize_by_folder /\ Len(resolved) = 2)
        => resolved[1].output_subdir # resolved[2].output_subdir

NoInvalid(s) == \A k \in 1..Len(s) : s[k] \notin InvalidChars
NoWsRun(s) ==
    \A k \in 1..(Len(s) - 1) :
        ~(s[k] \in Whitespace /\ s[k + 1] \in Whitespace)
Trimmed(s) ==
    s = <<>> \/ (s[1] \notin Whitespace /\ s[Len(s)] \notin Whitespace)
SegmentsOf(p) == {SplitOn(p, Sep)[k] : k \in 1..Len(SplitOn(p, Sep))}

\* C4 as stated: every segment of the sanitised relative path is free of
\* the invalid characters, has no run of two whitespace characters, and has
\* no leading or trailing whitespace.
C4Claim ==
    \A i \in 1..Len(resolved) :
        opts.organize_by_folder =>
            \A seg \in SegmentsOf(resolved[i].rel_path) :
                NoInvalid(seg) /\ NoWsRun(seg) /\ Trimmed(seg)

\* C4 amended: every segment of the sanitised relative path is free of the
\* invalid characters and has no run of two whitespace characters; the path
\* as a whole has no leading or trailing whitespace.
C4Amended ==
    \A i \in 1..Len(resolved) :
        opts.organize_by_folder =>
            /\ \A seg \in SegmentsOf(resolved[i].rel_path) :
                   NoInvalid(seg) /\ NoWsRun(seg)
            /\ Trimmed(resolved[i].rel_path)

\* a path of two segments with an invalid character and a whitespace run,
\* which sanitising changed
C4Witness ==
    \E i \in 1..Len(resolved) :
        /\ opts.organize_by_folder
        /\ Len(SplitOn(RawRelPath(i), Sep)) = 2
        /\ ~NoInvalid(RawRelPath(i))
        /\ ~NoWsRun(RawRelPath(i))
        /\ resolved[i].rel_path # RawRelPath(i)

-----------------------------------------------------------------------------
(* Properties of the convert pass (specification SpecConvert). *)

\* C6: after a run of the external converter that exited non-zero, no
\* error was raised, every image with the expected extension the run wrote
\* is among the returned files, and the returned files are the listing of
\* the destination after the run.
C6Theorem ==
    (last_run.ran /\ last_run.returncode # 0) =>
        /\ last_run.status = "ok"
        /\ {f \in last_run.written : f.ext = ExpectedExt(opts)}
               \subseteq last_run.returned
        /\ last_run.returned =
               {f \in disk : /\ f.dir = last_run.output_folder
                             /\ f.ext = ExpectedExt(opts)}

\* the converter exited with status 1 and wrote an image, which is returned
C6Witness ==
    /\ last_run.ran
    /\ last_run.returncode = 1
    /\ \E f \in last_run.written :
           f.ext = ExpectedExt(opts) /\ f \in last_run.returned

\* C7 as stated: after the convert pass the results mapping has one entry
\* per unit processed, and the summary's folder count is the number of units.
C7Claim ==
    pc = "done" =>
        /\ Len(results) = Len(dicom_folders)
        /\ summary.total_folders = Len(dicom_folders)

AttemptedPaths == [i \in 1..Len(attempts) |-> attempts[i].folder_path]

\* what C8 says of one step of the convert pass
C8Step ==
    /\ (pc = "loop" /\ conv_idx <= Len(dicom_folders)) =>
           /\ pc' = "loop"
           /\ conv_idx' = conv_idx + 1
           /\ Len(attempts') = Len(attempts) + 1
           /\ SubSeq(attempts', 1, Len(attempts)) = attempts
           /\ attempts'[Len(attempts')].folder_path = dicom_folders[conv_idx].key
           /\ attempts'[Len(attempts')].raised =>
                  /\ DictHas(results', dicom_folders[conv_idx].key)
                  /\ DictGet(results', dicom_folders[conv_idx].key) = {}
    /\ (pc = "loop" /\ conv_idx > Len(dicom_folders)) =>
           /\ pc' = "done"
           /\ attempts' = attempts
           /\ AttemptedPaths = Keys(dicom_folders)
           /\ summary' = Summarize(results)

\* C8: every step of the loop attempts the next unit of the mapping, once,
\* whether or not the attempt raises; an attempt that raises leaves an entry
\* with no produced files; after the last unit comes the summary, every unit
\* having been attempted once, in mapping order.
C8Theorem == [][C8Step]_vars

\* a finished pass in which one unit raised and a later unit was converted
C8Witness ==
    /\ pc = "done"
    /\ \E i \in 1..Len(attempts), j \in 1..Len(attempts) :
           i < j /\ attempts[i].raised /\ ~attempts[j].raised

\* C9 as stated: the files returned for a unit by the external-converter
\* strategy are files its own converter run wrote.
C9Claim == last_run.ran => last_run.returned \subseteq last_run.written

\* C10 as stated: in the library strategy no source file is handed to
\* reconstruction by two units.
C10Claim ==
    \A g \in handled, h \in handled : g.file = h.file => g.unit = h.unit

====
